---- MODULE Spec2Model ----
(***************************************************************************)
(* Model of the API test harness: the authenticated client (api_client.py),*)
(* the test-data catalog (tests/test_data.py), the payload builder         *)
(* (tests/payload_builder.py), the report generator                        *)
(* (tests/report_generator.py) and the fixtures of tests/conftest.py: the  *)
(* session-scoped client, auth_token and the per-test TestLogger.          *)
(*                                                                         *)
(* Python values are tagged records:                                       *)
(*   [k |-> "none"]                      None / JSON null                  *)
(*   [k |-> "str",  s |-> "..."]         a string                          *)
(*   [k |-> "dict", keys |-> <<..>>, f |-> [key |-> value]]   a dict, with *)
(*                                       its keys in insertion order       *)
(*   [k |-> "int",  n |-> 0]             an int                            *)
(*   [k |-> "list"]                      the empty JSON array              *)
(*   [k |-> "nojson", s |-> "..."]       a response text that is not JSON  *)
(***************************************************************************)
EXTENDS Integers, Sequences, FiniteSets, TLC

VARIABLES
    base_url,   \* APIClient.base_url
    token,      \* APIClient.token
    headers,    \* APIClient.session.headers: header name -> header value
    sent,       \* the requests the last call handed to the transport, in order
    net,        \* what the transport answered to the last call
    result,     \* the last call: operation, arguments, value returned or exception raised
    catalog,    \* tests/test_data.py TEST_CASES
    test_case,  \* the catalog entry the running parametrized test was given, None outside one
    built,      \* the last catalog or payload-builder call: operation, arguments, outcome
    held,       \* the mapping a caller holds from the last call: its value, and the catalog
                \* position it is the very object of (0 for an object of its own)
    mutated,    \* whether a caller has changed a mapping it was handed
    dirs,       \* the directories that exist under the working directory
    files,      \* the files that exist: path -> text
    report,     \* the last generate_html_report call: arguments, outcome
    logs,       \* TestLogger.logs of each logger instance
    start_time, \* TestLogger.start_time of each logger instance
    clock,      \* the wall clock datetime.now() reads
    logged      \* the last logger call: operation, logger, arguments, value returned

clientVars == <<base_url, token, headers, sent, net, result>>

payloadVars == <<catalog, test_case, built, held, mutated>>

reportVars == <<dirs, files, report>>

loggerVars == <<logs, start_time, clock, logged>>

vars == <<clientVars, payloadVars, reportVars, loggerVars>>

-----------------------------------------------------------------------------
(* Python values                                                           *)

None == [k |-> "none"]

PyStrVal(s) == [k |-> "str", s |-> s]

PyDict(keys, f) == [k |-> "dict", keys |-> keys, f |-> f]

EmptyDict == PyDict(<<>>, [x \in {} |-> None])

EmptyList == [k |-> "list"]

NotJson(s) == [k |-> "nojson", s |-> s]

PyInt(n) == [k |-> "int", n |-> n]

\* isinstance(v, dict)
IsDict(v) == v.k = "dict"

\* Python truthiness: None, "", 0, {} and [] are falsy
Truthy(v) ==
    CASE v.k = "none" -> FALSE
      [] v.k = "str"  -> v.s # ""
      [] v.k = "int"  -> v.n # 0
      [] v.k = "dict" -> Len(v.keys) > 0
      [] v.k = "list" -> FALSE
      [] OTHER        -> TRUE

\* d.get(key): the value under key, None when the key is absent
Get(d, key) == IF key \in DOMAIN d.f THEN d.f[key] ELSE None

\* Python's `a or b`: a when a is truthy, else b
Or(a, b) == IF Truthy(a) THEN a ELSE b

RECURSIVE PyRepr(_), PyItems(_, _)
\* repr(v), which str() of a dict applies to the dict's values
PyRepr(v) ==
    CASE v.k = "none" -> "None"
      [] v.k = "str"  -> "'" \o v.s \o "'"
      [] v.k = "int"  -> ToString(v.n)
      [] v.k = "dict" -> "{" \o PyItems(v, 1) \o "}"
      [] v.k = "list" -> "[]"
      [] OTHER        -> v.s

\* 'k1': repr(v1), 'k2': repr(v2), ... for the keys of d from position i on
PyItems(d, i) ==
    IF i > Len(d.keys) THEN ""
    ELSE "'" \o d.keys[i] \o "': " \o PyRepr(d.f[d.keys[i]])
         \o (IF i < Len(d.keys) THEN ", " ELSE "")
         \o PyItems(d, i + 1)

\* str(v), as an f-string renders {v}
PyStr(v) == IF v.k = "str" THEN v.s ELSE PyRepr(v)

RECURSIVE JsonText(_), JsonItems(_, _)
\* the JSON text of a value: what the server put on the wire, resp.text
JsonText(v) ==
    CASE v.k = "none" -> "null"
      [] v.k = "str"  -> "\"" \o v.s \o "\""
      [] v.k = "dict" -> "{" \o JsonItems(v, 1) \o "}"
      [] v.k = "list" -> "[]"
      [] OTHER        -> v.s

\* "k1": v1, "k2": v2, ... for the keys of d from position i on
JsonItems(d, i) ==
    IF i > Len(d.keys) THEN ""
    ELSE "\"" \o d.keys[i] \o "\": " \o JsonText(d.f[d.keys[i]])
         \o (IF i < Len(d.keys) THEN ", " ELSE "")
         \o JsonItems(d, i + 1)

-----------------------------------------------------------------------------
(* The transport (requests.Session) as the client sees it                   *)

\* requests.Session() starts with the library's default headers, none of
\* them Authorization
DefaultHeaders == ("Accept" :> "*/*") @@ ("Connection" :> "keep-alive")

\* headers.update({name: value})
HeadersUpdate(h, name, value) == (name :> value) @@ h

\* headers.pop(name, None)
HeadersPop(h, name) == [n \in DOMAIN h \ {name} |-> h[n]]

\* a response: resp.status_code, resp.text and what resp.json() parses from it
Response(status, body) == [status_code |-> status, text |-> JsonText(body), body |-> body]

\* the exceptions requests raises, with the classes the except clauses test
TransportErrors == {"ReadTimeout", "ConnectTimeout", "ConnectionError"}

\* isinstance(e, requests.Timeout)
IsTimeout(e) == e \in {"ReadTimeout", "ConnectTimeout"}

\* isinstance(e, requests.RequestException)
IsRequestException(e) == e \in TransportErrors

Answered(resp) == [kind |-> "response", resp |-> resp]

Failed(e) == [kind |-> "error", error |-> e]

NotCalled == [kind |-> "none"]

\* what a call leaves behind: a value returned or an exception raised
Returned(op, args, value) ==
    [op |-> op, args |-> args, outcome |-> "returned", value |-> value, exc |-> [cls |-> "", msg |-> ""]]

Raised(op, args, cls, msg) ==
    [op |-> op, args |-> args, outcome |-> "raised", value |-> None, exc |-> [cls |-> cls, msg |-> msg]]

NoCall == [op |-> "__init__", args |-> <<>>, outcome |-> "returned", value |-> None, exc |-> [cls |-> "", msg |-> ""]]

-----------------------------------------------------------------------------
(* Inputs                                                                  *)

BaseUrlInputs == {"https://api.test", "https://api.test/", "https://api.test//"}

Usernames == {"admin"}

Passwords == {"password123"}

TokenStrings == {"tokA", "tokB"}

\* the values set_token is called with: None, the empty string, a token
SetTokenInputs == {None, PyStrVal("")} \cup {PyStrVal(t) : t \in TokenStrings}

Absent == [k |-> "absent"]

TokenObject == PyDict(<<"token">>, [token |-> PyStrVal("tokN")])

AccessTokenObject == PyDict(<<"access_token">>, [access_token |-> PyStrVal("tokM")])

BothTokensObject ==
    PyDict(<<"token", "access_token">>, [token |-> PyStrVal("tokN"), access_token |-> PyStrVal("tokM")])

UserObject == PyDict(<<"user">>, [user |-> PyStrVal("admin")])

\* the values a login body carries under "token", "access_token" and "data":
\* left out, a falsy or a usable string, an object with or without tokens
TokenFieldValues == {Absent, PyStrVal(""), PyStrVal("tokA"), EmptyDict, TokenObject}

AccessTokenFieldValues == {Absent, PyStrVal("tokB"), AccessTokenObject}

DataFieldValues == {Absent, EmptyDict, PyStrVal("tokD"), UserObject, AccessTokenObject, BothTokensObject}

\* the JSON object with the given values under token, access_token, data (in
\* that order), a field left out when its value is Absent
LoginObject(t, a, d) ==
    LET given == [token |-> t, access_token |-> a, data |-> d]
        keys  == SelectSeq(<<"token", "access_token", "data">>, LAMBDA key : given[key] # Absent)
    IN  PyDict(keys, [key \in {keys[i] : i \in 1..Len(keys)} |-> given[key]])

\* login response bodies: JSON objects of every shape above, a JSON array and
\* a body that is not JSON
LoginBodies ==
    { LoginObject(t, a, d) : t \in TokenFieldValues, a \in AccessTokenFieldValues, d \in DataFieldValues }
    \cup {EmptyList, NotJson("<html>Bad Gateway</html>")}

Statuses == {200, 201, 401, 500}

\* bodies of the responses to plain requests
ResponseBodies ==
    { PyDict(<<"token">>, [token |-> PyStrVal("tokA")]),
      PyDict(<<"reason">>, [reason |-> PyStrVal("Bad credentials")]) }

Methods == {"GET", "POST"}

Paths == {"/auth", "https://other.test/ping"}

\* request's **kwargs: nothing, a JSON body, or a timeout of the caller's own
NoKwargs == [kind |-> "none"]

JsonKwargs(body) == [kind |-> "json", json |-> body]

TimeoutKwargs == [kind |-> "timeout"]

Credentials == PyDict(<<"username", "password">>, [username |-> PyStrVal("admin"), password |-> PyStrVal("password123")])

KwargsInputs == {NoKwargs, JsonKwargs(Credentials), TimeoutKwargs}

\* what the transport may do with a plain request: fail, or answer
TransportOutcomes ==
    { Failed(e) : e \in TransportErrors }
    \cup { Answered(Response(st, body)) : st \in Statuses, body \in ResponseBodies }

\* what the transport may do with the login request: fail, answer 200 with any
\* login body, or answer any other status
LoginOutcomes ==
    { Failed(e) : e \in TransportErrors }
    \cup { Answered(Response(200, body)) : body \in LoginBodies }
    \cup { Answered(Response(st, body)) : st \in Statuses \ {200}, body \in ResponseBodies }

-----------------------------------------------------------------------------
(* tests/test_data.py and tests/payload_builder.py                         *)

TestCase(file_url, file_type, file_id, builder_id, entity_id, description) ==
    [file_url |-> file_url, file_type |-> file_type, file_id |-> file_id,
     builder_id |-> builder_id, entity_id |-> entity_id, description |-> description]

TEST_CASES ==
    << TestCase("https://dc-eastus-dev-fs-func-001.azurewebsites.net/api/files/mybldr/projects/6576/files/875c043f-8312-4ead-838a-82181b9e1a5a",
                "community", "abcd1234", "example", "abcd1234", "Community guide PDF for Builder Alpha"),
       TestCase("https://example.com/zoning-map.pdf",
                "zoning", "abcd1234", "example", "abcd1234", "Zoning map PDF for Builder Beta"),
       TestCase("https://example.com/floorplan.png",
                "image", "abcd1234", "example", "abcd1234", "Floor plan image for Builder Gamma"),
       TestCase("https://example.com/blueprint.docx",
                "blueprint", "abcd1234", "example", "abcd1234", "Blueprint document for Builder Delta"),
       TestCase("https://example.com/brochure.pdf",
                "brochure", "abcd1234", "example", "abcd1234", "Marketing brochure for Builder Epsilon") >>

RECURSIVE FirstFrom(_, _, _)
\* the loop of get_test_case from position i on: the first case whose
\* file_id is the one asked for, None when the cases run out
FirstFrom(cases, i, file_id) ==
    IF i > Len(cases) THEN None
    ELSE IF cases[i].file_id = file_id THEN cases[i]
    ELSE FirstFrom(cases, i + 1, file_id)

RECURSIVE LastFrom(_, _, _)
LastFrom(cases, i, file_id) ==
    IF i < 1 THEN None
    ELSE IF cases[i].file_id = file_id THEN cases[i]
    ELSE LastFrom(cases, i - 1, file_id)

\* get_test_case with the loop keeping the last match instead of returning the first
get_test_case_last(cases, file_id) == LastFrom(cases, Len(cases), file_id)

get_test_case(cases, file_id) == FirstFrom(cases, 1, file_id)

\* get_all_test_cases()
get_all_test_cases(cases) == cases

\* `not test_case`: None and the empty dict are falsy
NotCase(case) == case = None \/ DOMAIN case = {}

\* build_query_params without its guard: subscripting None is a TypeError
build_query_params_unguarded(cases, file_id) ==
    LET found == FirstFrom(cases, 1, file_id)
        args  == [file_id |-> file_id]
    IN  IF found = None
        THEN Raised("build_query_params", args, "TypeError", "'NoneType' object is not subscriptable")
        ELSE Returned("build_query_params", args,
                      [file_url   |-> found.file_url,
                       file_type  |-> found.file_type,
                       file_id    |-> found.file_id,
                       builder_id |-> found.builder_id,
                       entity_id  |-> found.entity_id])

\* PayloadBuilder.build_query_params(file_id)
build_query_params(cases, file_id) ==
    LET found == get_test_case(cases, file_id)
        args      == [file_id |-> file_id]
    IN  IF NotCase(found)
        THEN Raised("build_query_params", args, "ValueError",
                    "Test case not found for file_id: " \o file_id)
        ELSE Returned("build_query_params", args,
                      [file_url   |-> found.file_url,
                       file_type  |-> found.file_type,
                       file_id    |-> found.file_id,
                       builder_id |-> found.builder_id,
                       entity_id  |-> found.entity_id])

\* build_query_params_custom with builder_id and entity_id crossed
build_query_params_custom_crossed(file_url, file_type, file_id, builder_id, entity_id) ==
    Returned("build_query_params_custom",
             [file_url |-> file_url, file_type |-> file_type, file_id |-> file_id,
              builder_id |-> builder_id, entity_id |-> entity_id],
             [file_url   |-> file_url,
              file_type  |-> file_type,
              file_id    |-> file_id,
              builder_id |-> entity_id,
              entity_id  |-> builder_id])

\* PayloadBuilder.build_query_params_custom(file_url, file_type, file_id, builder_id, entity_id)
build_query_params_custom(file_url, file_type, file_id, builder_id, entity_id) ==
    Returned("build_query_params_custom",
             [file_url |-> file_url, file_type |-> file_type, file_id |-> file_id,
              builder_id |-> builder_id, entity_id |-> entity_id],
             [file_url   |-> file_url,
              file_type  |-> file_type,
              file_id    |-> file_id,
              builder_id |-> builder_id,
              entity_id  |-> entity_id])

\* the object a caller holds: its value and, when it is the catalog's own
\* entry, the position of that entry (0 for an object of its own)
Held(alias, value) == [alias |-> alias, value |-> value]

NoHeld == Held(0, None)

RECURSIVE PositionFrom(_, _, _)
\* the position of the case get_test_case's loop returns, 0 when it returns None
PositionFrom(cases, i, file_id) ==
    IF i > Len(cases) THEN 0
    ELSE IF cases[i].file_id = file_id THEN i
    ELSE PositionFrom(cases, i + 1, file_id)

\* get_test_case returns `case`: the catalog's own dict, no copy of it
HeldFromLookup(cases, file_id) ==
    Held(PositionFrom(cases, 1, file_id), get_test_case(cases, file_id))

\* build_query_params returning the catalog entry it found instead of a new dict
HeldFromBuild_entry(cases, file_id) == HeldFromLookup(cases, file_id)

\* build_query_params returns a dict literal: a new object on every call
HeldFromBuild(cases, file_id) == Held(0, build_query_params(cases, file_id).value)

\* build_query_params_custom returns a dict literal as well
HeldFromCustom(file_url, file_type, file_id, builder_id, entity_id) ==
    Held(0, build_query_params_custom(file_url, file_type, file_id, builder_id, entity_id).value)

\* the changes a caller makes to a mapping it was handed: d[key] = value
MutatedKeys == {"file_url", "file_id"}

MutationValues == {"changed"}

NoBuild == [op |-> "none", args |-> <<>>, outcome |-> "returned", value |-> None, exc |-> [cls |-> "", msg |-> ""]]

\* inputs of the builder: the ids of the catalog and ids it does not hold
FileIdInputs == {"abcd1234", "nonexistent", "invalid_001", "test_001", ""}

FileUrlInputs == {"https://example.com/test.pdf", "https://example.com/zoning-map.pdf", ""}

FileTypeInputs == {"invalid_file_type", "community", "zoning"}

BuilderIdInputs == {"test_builder", "example"}

EntityIdInputs == {"test_entity", "abcd1234"}

-----------------------------------------------------------------------------
(* tests/report_generator.py                                               *)

NoFiles == [path \in {} |-> ""]

NoReport == [op |-> "none", args |-> <<>>, outcome |-> "returned", value |-> None, exc |-> [cls |-> "", msg |-> ""]]

\* the template as str.format reads it: literal text, and replacement fields
\* "{name:spec}". Every "{ ... }" of the style sheet is such a field: its
\* name is the text up to the first colon. Runs of white space in literal
\* text and in format specs are written as one blank and characters outside
\* ASCII are left out; field names are exact.
Lit(text) == [kind |-> "lit", text |-> text]

Field(name, spec) == [kind |-> "field", name |-> name, spec |-> spec]

Template ==
    << 
       Lit(" <!DOCTYPE html> <html lang=\"en\"> <head> <meta charset=\"UTF-8\"> <meta name=\"viewport\" content=\"width=device-width, initial-scale=1.0\"> <title>Playwright API Test Report</title> <style> body "),
       Field("\n                font-family", " 'Segoe UI', Tahoma, Geneva, Verdana, sans-serif; margin: 20px; background-color: #f5f5f5; "),
       Lit(" .container "),
       Field("\n                max-width", " 1200px; margin: 0 auto; background: white; padding: 20px; border-radius: 8px; box-shadow: 0 2px 4px rgba(0,0,0,0.1); "),
       Lit(" h1 "),
       Field("\n                color", " #333; border-bottom: 3px solid #007bff; padding-bottom: 10px; "),
       Lit(" .summary "),
       Field("\n                display", " grid; grid-template-columns: repeat(auto-fit, minmax(200px, 1fr)); gap: 15px; margin: 20px 0; "),
       Lit(" .stat-card "),
       Field("\n                background", " linear-gradient(135deg, #667eea 0%, #764ba2 100%); color: white; padding: 20px; border-radius: 8px; text-align: center; "),
       Lit(" .stat-card.passed "),
       Field("\n                background", " linear-gradient(135deg, #11998e 0%, #38ef7d 100%); "),
       Lit(" .stat-card.failed "),
       Field("\n                background", " linear-gradient(135deg, #eb3349 0%, #f45c43 100%); "),
       Lit(" .stat-card.skipped "),
       Field("\n                background", " linear-gradient(135deg, #fa709a 0%, #fee140 100%); "),
       Lit(" .stat-number "),
       Field("\n                font-size", " 32px; font-weight: bold; margin: 10px 0; "),
       Lit(" .stat-label "),
       Field("\n                font-size", " 14px; opacity: 0.9; "),
       Lit(" .test-section "),
       Field("\n                margin", " 30px 0; "),
       Lit(" .test-case "),
       Field("\n                background", " #f9f9f9; border-left: 4px solid #007bff; padding: 15px; margin: 10px 0; border-radius: 4px; "),
       Lit(" .test-case.passed "),
       Field("\n                border-left-color", " #28a745; "),
       Lit(" .test-case.failed "),
       Field("\n                border-left-color", " #dc3545; "),
       Lit(" .test-name "),
       Field("\n                font-weight", " bold; color: #333; margin-bottom: 5px; "),
       Lit(" .test-status "),
       Field("\n                display", " inline-block; padding: 4px 12px; border-radius: 20px; font-size: 12px; font-weight: bold; margin: 5px 0; "),
       Lit(" .test-status.passed "),
       Field("\n                background", " #d4edda; color: #155724; "),
       Lit(" .test-status.failed "),
       Field("\n                background", " #f8d7da; color: #721c24; "),
       Lit(" .test-details "),
       Field("\n                background", " white; padding: 10px; margin-top: 10px; border-radius: 4px; font-family: 'Courier New', monospace; font-size: 12px; max-height: 300px; overflow-y: auto; "),
       Lit(" .request-response "),
       Field("\n                margin", " 10px 0; padding: 10px; background: #f0f0f0; border-radius: 4px; "),
       Lit(" .timestamp "),
       Field("\n                color", " #666; font-size: 12px; "),
       Lit(" footer "),
       Field("\n                margin-top", " 40px; padding-top: 20px; border-top: 1px solid #ddd; color: #666; text-align: center; font-size: 12px; "),
       Lit(" </style> </head> <body> <div class=\"container\"> <h1> Playwright API Test Report</h1> <p class=\"timestamp\">Generated: "),
       Field("timestamp", ""),
       Lit("</p> <div class=\"summary\"> <div class=\"stat-card\"> <div class=\"stat-label\">Total Tests</div> <div class=\"stat-number\">"),
       Field("total", ""),
       Lit("</div> </div> <div class=\"stat-card passed\"> <div class=\"stat-label\">Passed</div> <div class=\"stat-number\">"),
       Field("passed", ""),
       Lit("</div> </div> <div class=\"stat-card failed\"> <div class=\"stat-label\">Failed</div> <div class=\"stat-number\">"),
       Field("failed", ""),
       Lit("</div> </div> <div class=\"stat-card skipped\"> <div class=\"stat-label\">Skipped</div> <div class=\"stat-number\">"),
       Field("skipped", ""),
       Lit("</div> </div> </div> <div class=\"test-section\"> <h2>Test Details</h2> "),
       Field("test_details", ""),
       Lit(" </div> <footer> <p>Playwright API Automation Framework</p> <p>Endpoint: /api/v1/intelligent-builder-intake/process</p> </footer> </div> </body> </html> ")
    >>

\* the longest outcome list generate_html_report is called with
MaxOutcomes == 2

\* the latest reading of the wall clock
MaxClock == 1

OutcomeStatuses == {"passed", "failed", "skipped", "error"}

\* test outcomes: one of each status, one without a status, one with an error text
TestOutcomes ==
    { [name |-> "test_process", status |-> st] : st \in OutcomeStatuses }
    \cup { [name |-> "test_process"],
           [name |-> "test_process", status |-> "failed", error |-> "AssertionError"] }

RECURSIVE SeqsUpTo(_, _)
\* the sequences over S of length at most n
SeqsUpTo(S, n) ==
    IF n = 0 THEN {<<>>}
    ELSE LET shorter == SeqsUpTo(S, n - 1)
         IN  shorter \cup { Append(q, x) : q \in shorter, x \in S }

OutcomeLists == SeqsUpTo(TestOutcomes, MaxOutcomes)

OutputFiles == {"reports/test_report.html", "out/report.html", "report.html"}

\* t.get(key, default)
OutcomeGet(t, key, default) == IF key \in DOMAIN t THEN t[key] ELSE default

\* sum(1 for t in test_results if t.get("status") == st)
CountStatus(test_results, st) ==
    Cardinality({ i \in 1..Len(test_results) : OutcomeGet(test_results[i], "status", "None") = st })

LowerCase == "abcdefghijklmnopqrstuvwxyz"

UpperCase == "ABCDEFGHIJKLMNOPQRSTUVWXYZ"

UpperChar(c) ==
    IF \E i \in 1..26 : SubSeq(LowerCase, i, i) = c
    THEN LET i == CHOOSE i \in 1..26 : SubSeq(LowerCase, i, i) = c
         IN  SubSeq(UpperCase, i, i)
    ELSE c

RECURSIVE Upper(_)
\* str.upper()
Upper(str) ==
    IF str = "" THEN ""
    ELSE UpperChar(SubSeq(str, 1, 1)) \o Upper(SubSeq(str, 2, Len(str)))

\* the block of one test in the details (f-string of the loop); white space
\* between the elements written as one blank
TestDetail(test) ==
    " <div class=\"test-case " \o OutcomeGet(test, "status", "unknown") \o "\">"
    \o " <div class=\"test-name\">" \o OutcomeGet(test, "name", "Unknown") \o "</div>"
    \o " <span class=\"test-status " \o OutcomeGet(test, "status", "unknown") \o "\">"
    \o Upper(OutcomeGet(test, "status", "UNKNOWN")) \o "</span>"
    \o " <div class=\"request-response\"> <strong>Request:</strong> "
    \o OutcomeGet(test, "request", "N/A") \o " </div>"
    \o " <div class=\"request-response\"> <strong>Response:</strong> "
    \o OutcomeGet(test, "response", "N/A") \o " </div> "
    \o (IF OutcomeGet(test, "error", "") # ""
        THEN "<div class=\"test-details\">" \o OutcomeGet(test, "error", "") \o "</div>"
        ELSE "")
    \o " </div> "

RECURSIVE TestDetails(_)
TestDetails(test_results) ==
    IF test_results = <<>> THEN ""
    ELSE TestDetail(Head(test_results)) \o TestDetails(Tail(test_results))

\* datetime.now().strftime("%Y-%m-%d %H:%M:%S") when the clock reads t
Timestamp(t) == "2026-01-01 00:00:0" \o ToString(t)

\* the keyword arguments html.format is called with
FormatKwargs(test_results, now) ==
    [timestamp    |-> Timestamp(now),
     total        |-> ToString(Len(test_results)),
     passed       |-> ToString(CountStatus(test_results, "passed")),
     failed       |-> ToString(CountStatus(test_results, "failed")),
     skipped      |-> ToString(CountStatus(test_results, "skipped")),
     test_details |-> TestDetails(test_results)]

RECURSIVE FormatFrom(_, _, _, _)
\* str.format from token i on: the text, or KeyError for the first field
\* that is none of the keyword arguments
FormatFrom(tokens, i, kwargs, text) ==
    IF i > Len(tokens) THEN [outcome |-> "returned", text |-> text, key |-> ""]
    ELSE IF tokens[i].kind = "lit"
    THEN FormatFrom(tokens, i + 1, kwargs, text \o tokens[i].text)
    ELSE IF tokens[i].name \in DOMAIN kwargs
    THEN FormatFrom(tokens, i + 1, kwargs, text \o kwargs[tokens[i].name])
    ELSE [outcome |-> "raised", text |-> "", key |-> tokens[i].name]

Format(tokens, kwargs) == FormatFrom(tokens, 1, kwargs, "")

RECURSIVE LastSlashFrom(_, _)
LastSlashFrom(path, i) ==
    IF i = 0 THEN 0
    ELSE IF SubSeq(path, i, i) = "/" THEN i
    ELSE LastSlashFrom(path, i - 1)

\* the directory write_text needs to exist: Path(path).parent, "" for the
\* working directory
ParentDir(path) ==
    LET slash == LastSlashFrom(path, Len(path))
    IN  IF slash = 0 THEN "" ELSE SubSeq(path, 1, slash - 1)

generate_html_report(test_results, output_file) ==
    LET args     == [test_results |-> test_results, output_file |-> output_file]
        made     == dirs \cup {"reports"}
        rendered == Format(Template, FormatKwargs(test_results, clock))
    IN  /\ dirs' = made
        /\ IF rendered.outcome = "raised"
           THEN /\ report' = Raised("generate_html_report", args, "KeyError", rendered.key)
                /\ files' = files
           ELSE IF ParentDir(output_file) \notin made \cup {""}
           THEN /\ report' = Raised("generate_html_report", args, "FileNotFoundError", output_file)
                /\ files' = files
           ELSE /\ report' = Returned("generate_html_report", args, None)
                /\ files' = (output_file :> rendered.text) @@ files
        /\ UNCHANGED <<clientVars, payloadVars, loggerVars>>

GenerateHtmlReport ==
    \E test_results \in OutcomeLists, output_file \in OutputFiles :
        generate_html_report(test_results, output_file)

\* time passes
Tick ==
    /\ clock < MaxClock
    /\ clock' = clock + 1
    /\ UNCHANGED <<clientVars, payloadVars, reportVars, logs, start_time, logged>>

NextReport == GenerateHtmlReport \/ Tick

-----------------------------------------------------------------------------
(* tests/conftest.py, tests/playwright_conftest.py: TestLogger             *)

\* the loggers the test_logger fixture hands out: one per test case
MaxLoggers == 2

\* the entries all loggers hold together
MaxLogs == 3

\* the last logger call: the logger it was made on, its arguments, the length
\* of that logger's logs before the call, the value it returned
Logged(op, logger, args, before, value) ==
    [op |-> op, logger |-> logger, args |-> args, before |-> before, value |-> value]

NoLog == Logged("none", 0, <<>>, 0, "")

\* datetime.now().isoformat() when the clock reads t
IsoFormat(t) == "2026-01-01T00:00:0" \o ToString(t)

\* the entry log() builds
Entry(now, level, message) == [timestamp |-> IsoFormat(now), level |-> level, message |-> message]

RECURSIVE JsonIndentItems(_, _)
\* the members of d from position i on, one per line, indented by two blanks
JsonIndentItems(d, i) ==
    IF i > Len(d.keys) THEN ""
    ELSE "\n  \"" \o d.keys[i] \o "\": " \o JsonText(d.f[d.keys[i]])
         \o (IF i < Len(d.keys) THEN "," ELSE "")
         \o JsonIndentItems(d, i + 1)

\* json.dumps(v, indent=2), for a dict whose values are strings or null
JsonDumpsIndent(v) ==
    IF IsDict(v) /\ Len(v.keys) > 0
    THEN "{" \o JsonIndentItems(v, 1) \o "\n}"
    ELSE JsonText(v)

\* the query parameters and bodies tests log
LoggedPayload ==
    PyDict(<<"file_id", "file_type">>,
           [file_id |-> PyStrVal("abcd1234"), file_type |-> PyStrVal("community")])

LogInputs ==
    { [message |-> "Test Case: Community guide", level |-> "INFO"],
      [message |-> "\n====", level |-> "INFO"],
      [message |-> "request failed", level |-> "ERROR"] }

ParamsInputs == {None, EmptyDict, LoggedPayload}

JsonBodyInputs == {None, LoggedPayload}

DataInputs == {None, EmptyDict, LoggedPayload}

ResponseTimeInputs == {None, PyInt(0), PyInt(12)}

\* the messages log_request logs, in order
RequestMessages(method, url, params, json_body) ==
    <<"REQUEST: " \o method \o " " \o url>>
    \o (IF Truthy(params) THEN <<"  Query Params: " \o JsonDumpsIndent(params)>> ELSE <<>>)
    \o (IF Truthy(json_body) THEN <<"  Body: " \o JsonDumpsIndent(json_body)>> ELSE <<>>)

\* the messages log_response logs, in order
ResponseMessages(status, data, response_time_ms) ==
    <<"RESPONSE: Status " \o ToString(status)>>
    \o (IF Truthy(response_time_ms)
        THEN <<"  Response Time: " \o PyStr(response_time_ms) \o "ms">> ELSE <<>>)
    \o (IF Truthy(data) THEN <<"  Data: " \o JsonDumpsIndent(data)>> ELSE <<>>)

\* LoggerAppend on a list that belongs to the class: every logger sees the entry
LoggerAppend_shared(ls, l, entry) == [k \in DOMAIN ls |-> Append(ls[k], entry)]

\* self.logs.append(entry) on logger l
LoggerAppend(ls, l, entry) == [ls EXCEPT ![l] = Append(@, entry)]

RECURSIVE LogAll(_, _, _, _)
\* self.log(message) for each of the messages, level INFO by default
LogAll(ls, l, messages, now) ==
    IF messages = <<>> THEN ls
    ELSE LogAll(LoggerAppend(ls, l, Entry(now, "INFO", Head(messages))), l, Tail(messages), now)

RECURSIVE ReportLines_newest_first(_)
\* ReportLines walking the entries from the last to the first
ReportLines_newest_first(entries) ==
    IF entries = <<>> THEN ""
    ELSE ReportLines_newest_first(Tail(entries))
         \o "[" \o Head(entries).timestamp \o "] [" \o Head(entries).level \o "] "
         \o Head(entries).message \o "\n"

RECURSIVE ReportLines(_)
\* the loop of get_report: one f-string per entry, in list order
ReportLines(entries) ==
    IF entries = <<>> THEN ""
    ELSE "[" \o Head(entries).timestamp \o "] [" \o Head(entries).level \o "] "
         \o Head(entries).message \o "\n"
         \o ReportLines(Tail(entries))

\* the header of get_report's text
ReportHeader(start, now, count) ==
    "Test Execution Report\n"
    \o "Start Time: " \o Timestamp(start) \o "\n"
    \o "End Time: " \o Timestamp(now) \o "\n"
    \o "Total Logs: " \o ToString(count) \o "\n\n"
    \o "Logs:\n"

ReportText(start, now, entries) ==
    ReportHeader(start, now, Len(entries)) \o ReportLines(entries)

RECURSIVE TotalLogs(_)
TotalLogs(ls) == IF ls = <<>> THEN 0 ELSE Len(Head(ls)) + TotalLogs(Tail(ls))

\* the fixture: a new TestLogger for the test case
test_logger ==
    /\ Len(logs) < MaxLoggers
    /\ logs' = Append(logs, <<>>)
    /\ start_time' = Append(start_time, clock)
    /\ logged' = Logged("test_logger", Len(logs) + 1, <<>>, 0, "")
    /\ UNCHANGED <<clock, clientVars, payloadVars, reportVars>>

log(l, message, level) ==
    /\ TotalLogs(logs) + 1 <= MaxLogs
    /\ logs' = LoggerAppend(logs, l, Entry(clock, level, message))
    /\ logged' = Logged("log", l, [message |-> message, level |-> level], Len(logs[l]), "")
    /\ UNCHANGED <<start_time, clock, clientVars, payloadVars, reportVars>>

log_request(l, method, url, params, json_body) ==
    LET messages == RequestMessages(method, url, params, json_body)
    IN  /\ TotalLogs(logs) + Len(messages) <= MaxLogs
        /\ logs' = LogAll(logs, l, messages, clock)
        /\ logged' = Logged("log_request", l,
                            [method |-> method, url |-> url, params |-> params, json_body |-> json_body],
                            Len(logs[l]), "")
        /\ UNCHANGED <<start_time, clock, clientVars, payloadVars, reportVars>>

log_response(l, status, data, response_time_ms) ==
    LET messages == ResponseMessages(status, data, response_time_ms)
    IN  /\ TotalLogs(logs) + Len(messages) <= MaxLogs
        /\ logs' = LogAll(logs, l, messages, clock)
        /\ logged' = Logged("log_response", l,
                            [status |-> status, data |-> data, response_time_ms |-> response_time_ms],
                            Len(logs[l]), "")
        /\ UNCHANGED <<start_time, clock, clientVars, payloadVars, reportVars>>

get_report(l) ==
    /\ logged' = Logged("get_report", l, <<>>, Len(logs[l]), ReportText(start_time[l], clock, logs[l]))
    /\ UNCHANGED <<logs, start_time, clock, clientVars, payloadVars, reportVars>>

TestLoggerFixture == test_logger

Log == \E l \in DOMAIN logs, input \in LogInputs : log(l, input.message, input.level)

LogRequest ==
    \E l \in DOMAIN logs, params \in ParamsInputs, json_body \in JsonBodyInputs :
        log_request(l, "POST", "/process", params, json_body)

LogResponse ==
    \E l \in DOMAIN logs, data \in DataInputs, response_time_ms \in ResponseTimeInputs :
        log_response(l, 200, data, response_time_ms)

GetReport == \E l \in DOMAIN logs : get_report(l)

NextLogger == TestLoggerFixture \/ Log \/ LogRequest \/ LogResponse \/ GetReport \/ Tick

-----------------------------------------------------------------------------
(* api_client.py: APIClient                                                *)

RECURSIVE RStrip(_, _)
\* s.rstrip(c) for a one-character c
RStrip(s, c) ==
    IF Len(s) > 0 /\ SubSeq(s, Len(s), Len(s)) = c
    THEN RStrip(SubSeq(s, 1, Len(s) - 1), c)
    ELSE s

\* s.startswith(prefix)
StartsWith(s, prefix) == Len(s) >= Len(prefix) /\ SubSeq(s, 1, Len(prefix)) = prefix

\* the value of the Authorization header for a token: f"Bearer {token}"
BearerValue(tok) == "Bearer " \o PyStr(tok)

\* LoginRejected as a test for any non-2xx status would be
LoginRejected_non2xx(resp) == resp.status_code \notin 200..299

\* authenticate's test of the login response: resp.status_code != 200
LoginRejected(resp) == resp.status_code # 200

\* ExtractToken with access_token tried before token
ExtractToken_access_first(data) ==
    LET field  == Or(Or(Get(data, "access_token"), Get(data, "token")), Get(data, "data"))
        nested == IF IsDict(field)
                  THEN Or(Get(field, "access_token"), Get(field, "token"))
                  ELSE field
    IN  IF ~Truthy(nested) THEN data ELSE nested

\* authenticate's choice of the token from the parsed login body
ExtractToken(data) ==
    LET field  == Or(Or(Get(data, "token"), Get(data, "access_token")), Get(data, "data"))
        nested == IF IsDict(field)
                  THEN Or(Get(field, "token"), Get(field, "access_token"))
                  ELSE field
    IN  IF ~Truthy(nested) THEN data ELSE nested

\* SetTokenHeaders without the pop of the else branch
SetTokenHeaders_keeps_header(h, tok) ==
    IF Truthy(tok)
    THEN HeadersUpdate(h, "Authorization", BearerValue(tok))
    ELSE h

\* the session's headers after set_token(tok)
SetTokenHeaders(h, tok) ==
    IF Truthy(tok)
    THEN HeadersUpdate(h, "Authorization", BearerValue(tok))
    ELSE HeadersPop(h, "Authorization")

\* the session's headers after a successful authenticate stored tok
AuthenticateHeaders(h, tok) == HeadersUpdate(h, "Authorization", BearerValue(tok))

\* the URL request() sends to
RequestUrl(base, path) == IF StartsWith(path, "http") THEN path ELSE base \o path

\* a request as the session sends it: the session's headers go with it
WireRequest(method, url, kwargs) ==
    [method |-> method, url |-> url, headers |-> headers, kwargs |-> kwargs]

\* TranslateError with the second except clause missing
TranslateError_timeout_only(op, args, e) ==
    IF IsTimeout(e) THEN Raised(op, args, "APIClientError", "timeout")
    ELSE Raised(op, args, e, "")

\* request()'s translation of an exception of the transport
TranslateError(op, args, e) ==
    IF IsTimeout(e) THEN Raised(op, args, "APIClientError", "timeout")
    ELSE IF IsRequestException(e) THEN Raised(op, args, "APIClientError", "request failed")
    ELSE Raised(op, args, e, "")

\* request(method, path, **kwargs) against a transport that answers o:
\* what is sent, what came back, and the value returned or exception raised
RequestCall(op, method, path, kwargs, o) ==
    LET args == [method |-> method, path |-> path, kwargs |-> kwargs]
        url  == RequestUrl(base_url, path)
    IN  IF kwargs.kind = "timeout"
        THEN \* timeout is passed twice to session.request: the call itself fails
             [sent |-> <<>>, net |-> NotCalled,
              result |-> Raised(op, args, "TypeError", "multiple values for keyword argument 'timeout'")]
        ELSE [sent |-> <<WireRequest(method, url, kwargs)>>, net |-> o,
              result |-> IF o.kind = "error"
                         THEN TranslateError(op, args, o.error)
                         ELSE Returned(op, args, o.resp)]

\* Unauthorized as a test for any error status
Unauthorized_any_error(resp) == resp.status_code >= 400

\* request_raise_on_unauthorized's test of the response
Unauthorized(resp) == resp.status_code = 401

Init ==
    /\ \E b \in BaseUrlInputs : base_url = RStrip(b, "/")
    /\ token = None
    /\ headers = DefaultHeaders
    /\ sent = <<>>
    /\ net = NotCalled
    /\ result = NoCall
    /\ catalog = TEST_CASES
    /\ test_case = None
    /\ built = NoBuild
    /\ held = NoHeld
    /\ mutated = FALSE
    /\ dirs = {}
    /\ files = NoFiles
    /\ report = NoReport
    /\ logs = <<>>
    /\ start_time = <<>>
    /\ clock = 0
    /\ logged = NoLog

authenticate(username, password, o) ==
    LET args  == [username |-> username, password |-> password]
        login == PyDict(<<"userName", "password">>,
                        [userName |-> PyStrVal(username), password |-> PyStrVal(password)])
        url   == base_url \o "/api/Authenticate/Login"
    IN  /\ sent' = <<WireRequest("POST", url, JsonKwargs(login))>>
        /\ net' = o
        /\ IF o.kind = "error"
           THEN \* session.post is not guarded: the transport's exception escapes
                /\ result' = Raised("authenticate", args, o.error, "")
                /\ UNCHANGED <<token, headers>>
           ELSE IF LoginRejected(o.resp)
           THEN /\ result' = Raised("authenticate", args, "APIClientError",
                                    "Authentication failed: " \o ToString(o.resp.status_code)
                                    \o " " \o o.resp.text)
                /\ UNCHANGED <<token, headers>>
           ELSE IF o.resp.body.k = "nojson"
           THEN \* resp.json() fails
                /\ result' = Raised("authenticate", args, "JSONDecodeError", "")
                /\ UNCHANGED <<token, headers>>
           ELSE IF ~IsDict(o.resp.body)
           THEN \* data.get on a value that is no dict
                /\ result' = Raised("authenticate", args, "AttributeError", "")
                /\ UNCHANGED <<token, headers>>
           ELSE LET data == o.resp.body
                    tok  == ExtractToken(data)
                IN  /\ token' = tok
                    /\ headers' = AuthenticateHeaders(headers, tok)
                    /\ result' = Returned("authenticate", args, data)
        /\ UNCHANGED <<base_url, payloadVars, reportVars, loggerVars>>

set_token(tok) ==
    /\ token' = tok
    /\ headers' = SetTokenHeaders(headers, tok)
    /\ sent' = <<>>
    /\ net' = NotCalled
    /\ result' = Returned("set_token", [token |-> tok], None)
    /\ UNCHANGED <<base_url, payloadVars, reportVars, loggerVars>>

\* request dropping the token when the service answers 401
request_forgets_on_401(method, path, kwargs, o) ==
    LET call == RequestCall("request", method, path, kwargs, o)
        drop == call.net.kind = "response" /\ call.net.resp.status_code = 401
    IN  /\ sent' = call.sent
        /\ net' = call.net
        /\ result' = call.result
        /\ token' = IF drop THEN None ELSE token
        /\ headers' = IF drop THEN HeadersPop(headers, "Authorization") ELSE headers
        /\ UNCHANGED <<base_url, payloadVars, reportVars, loggerVars>>

request(method, path, kwargs, o) ==
    LET call == RequestCall("request", method, path, kwargs, o)
    IN  /\ sent' = call.sent
        /\ net' = call.net
        /\ result' = call.result
        /\ UNCHANGED <<base_url, token, headers, payloadVars, reportVars, loggerVars>>

request_raise_on_unauthorized(method, path, kwargs, o) ==
    LET call == RequestCall("request_raise_on_unauthorized", method, path, kwargs, o)
    IN  /\ sent' = call.sent
        /\ net' = call.net
        /\ result' = IF call.result.outcome = "returned" /\ Unauthorized(call.result.value)
                     THEN Raised("request_raise_on_unauthorized", call.result.args,
                                 "APIClientError", "unauthorized")
                     ELSE call.result
        /\ UNCHANGED <<base_url, token, headers, payloadVars, reportVars, loggerVars>>

Authenticate ==
    \E username \in Usernames, password \in Passwords, o \in LoginOutcomes :
        authenticate(username, password, o)

SetToken == \E tok \in SetTokenInputs : set_token(tok)

Request ==
    \E method \in Methods, path \in Paths, kwargs \in KwargsInputs,
       o \in TransportOutcomes :
        request(method, path, kwargs, o)

RequestRaiseOnUnauthorized ==
    \E method \in Methods, path \in Paths, kwargs \in KwargsInputs,
       o \in TransportOutcomes :
        request_raise_on_unauthorized(method, path, kwargs, o)

NextClient == Authenticate \/ SetToken \/ Request \/ RequestRaiseOnUnauthorized

SpecClient == Init /\ [][NextClient]_vars

SpecReport == Init /\ [][NextReport]_vars

SpecLogger == Init /\ [][NextLogger]_vars

-----------------------------------------------------------------------------
(* tests/conftest.py: the session-scoped client and the auth_token fixture *)

\* bodies /auth answers with status 200: a token, an empty token, no token,
\* a JSON array, a body that is not JSON
AuthBodies ==
    { PyDict(<<"token">>, [token |-> PyStrVal("tokC")]),
      PyDict(<<"token">>, [token |-> PyStrVal("")]),
      EmptyDict, EmptyList, NotJson("<html>Bad Gateway</html>") }

AuthOutcomes ==
    TransportOutcomes \cup { Answered(Response(200, body)) : body \in AuthBodies }

\* pytest.skip(reason) as the outcome of the fixture
Skipped(reason) == Raised("auth_token", <<>>, "Skipped", reason)

\* AuthTokenHeaders without the Cookie update
AuthTokenHeaders_no_cookie(h, tok) == SetTokenHeaders(h, tok)

\* the session's headers after client.set_token(token) and
\* client.session.headers.update({"Cookie": f"token={token}"})
AuthTokenHeaders(h, tok) ==
    HeadersUpdate(SetTokenHeaders(h, tok), "Cookie", "token=" \o PyStr(tok))

auth_token(o) ==
    LET call == RequestCall("auth_token", "POST", "/auth", JsonKwargs(Credentials), o)
    IN  /\ sent' = call.sent
        /\ net' = call.net
        /\ IF call.result.outcome = "raised"
           THEN \* client.request raised: the fixture fails with that error
                /\ result' = call.result
                /\ UNCHANGED <<token, headers>>
           ELSE IF call.result.value.status_code # 200
           THEN /\ result' = Skipped("Could not obtain token from /auth")
                /\ UNCHANGED <<token, headers>>
           ELSE IF call.result.value.body.k = "nojson"
           THEN \* resp.json() fails
                /\ result' = Raised("auth_token", <<>>, "JSONDecodeError", "")
                /\ UNCHANGED <<token, headers>>
           ELSE IF ~IsDict(call.result.value.body)
           THEN \* .get on a value that is no dict
                /\ result' = Raised("auth_token", <<>>, "AttributeError", "")
                /\ UNCHANGED <<token, headers>>
           ELSE LET tok == Get(call.result.value.body, "token")
                IN  IF ~Truthy(tok)
                    THEN /\ result' = Skipped("Auth succeeded but token not returned")
                         /\ UNCHANGED <<token, headers>>
                    ELSE /\ token' = tok
                         /\ headers' = AuthTokenHeaders(headers, tok)
                         /\ result' = Returned("auth_token", <<>>, tok)
        /\ UNCHANGED <<base_url, payloadVars, reportVars, loggerVars>>

AuthToken == \E o \in AuthOutcomes : auth_token(o)

\* the client of the test session: the fixture, and the calls tests make on it
NextSession == AuthToken \/ SetToken \/ Request \/ RequestRaiseOnUnauthorized

SpecSession == Init /\ [][NextSession]_vars

GetTestCase ==
    \E file_id \in FileIdInputs :
        /\ built' = Returned("get_test_case", [file_id |-> file_id], get_test_case(catalog, file_id))
        /\ held' = HeldFromLookup(catalog, file_id)
        /\ test_case' = None
        /\ UNCHANGED <<catalog, mutated, clientVars, reportVars, loggerVars>>

BuildQueryParams ==
    \E file_id \in FileIdInputs :
        /\ built' = build_query_params(catalog, file_id)
        /\ held' = HeldFromBuild(catalog, file_id)
        /\ test_case' = None
        /\ UNCHANGED <<catalog, mutated, clientVars, reportVars, loggerVars>>

\* the parametrized tests: one test per entry of get_all_test_cases(), the
\* payload built from the entry's own file_id
BuildForTestCase ==
    \E i \in 1..Len(get_all_test_cases(catalog)) :
        LET case == get_all_test_cases(catalog)[i]
        IN  /\ test_case' = case
            /\ built' = build_query_params(catalog, case.file_id)
            /\ held' = HeldFromBuild(catalog, case.file_id)
            /\ UNCHANGED <<catalog, mutated, clientVars, reportVars, loggerVars>>

BuildQueryParamsCustom ==
    \E file_url \in FileUrlInputs, file_type \in FileTypeInputs, file_id \in FileIdInputs,
       builder_id \in BuilderIdInputs, entity_id \in EntityIdInputs :
        /\ built' = build_query_params_custom(file_url, file_type, file_id, builder_id, entity_id)
        /\ held' = HeldFromCustom(file_url, file_type, file_id, builder_id, entity_id)
        /\ test_case' = None
        /\ UNCHANGED <<catalog, mutated, clientVars, reportVars, loggerVars>>

BuilderOps == {"build_query_params", "build_query_params_custom"}

\* a caller changes the mapping a builder handed it: d[key] = value. When the
\* object is a catalog entry the catalog changes with it.
MutateReturned ==
    \E key \in MutatedKeys, value \in MutationValues :
        /\ built.op \in BuilderOps
        /\ built.outcome = "returned"
        /\ held.value[key] # value
        /\ held' = [held EXCEPT !.value[key] = value]
        /\ catalog' = IF held.alias > 0
                      THEN [catalog EXCEPT ![held.alias][key] = value]
                      ELSE catalog
        /\ mutated' = TRUE
        /\ UNCHANGED <<test_case, built, clientVars, reportVars, loggerVars>>

NextPayload ==
    GetTestCase \/ BuildQueryParams \/ BuildForTestCase \/ BuildQueryParamsCustom \/ MutateReturned

SpecPayload == Init /\ [][NextPayload]_vars

-----------------------------------------------------------------------------
(* Properties of the client                                                *)

HasAuthorization == "Authorization" \in DOMAIN headers

\* a token that is set: a non-empty string or a non-empty object
TokenIsSet ==
    \/ token.k = "str" /\ token.s # ""
    \/ token.k = "dict" /\ token.keys # <<>>

\* C1: in every reachable state the session carries an Authorization header
\* if and only if the client's token is set (non-empty), the whole-body
\* fallback of authenticate included.
C1_HeaderIffTokenSet == HasAuthorization <=> TokenIsSet

\* C2: set_token(None) leaves no Authorization header and the token cleared;
\* set_token(t) for a non-empty t leaves the token equal to t and the header
\* exactly "Bearer " followed by t, whatever was there before; set_token
\* sends nothing.
C2_SetToken ==
    result.op = "set_token" =>
        LET tok == result.args.token
        IN  /\ tok = None => token = None /\ ~HasAuthorization
            /\ (tok.k = "str" /\ tok.s # "") =>
                   /\ token = tok
                   /\ HasAuthorization
                   /\ headers["Authorization"] = "Bearer " \o tok.s
            /\ sent = <<>>
            /\ net = NotCalled

\* a set_token(None) that found a header to remove cannot be told from the
\* state alone, so the witness is the replacing call: a token set over the
\* defaults of the session, which are still there
C2_Witness ==
    /\ result.op = "set_token"
    /\ result.args.token = PyStrVal("tokB")
    /\ headers["Authorization"] = "Bearer tokB"
    /\ headers["Accept"] = "*/*"

LoginAnswered == result.op = "authenticate" /\ net.kind = "response"

AuthenticationError(status, text) ==
    [cls |-> "APIClientError",
     msg |-> "Authentication failed: " \o ToString(status) \o " " \o text]

\* the values of a login body a token may be taken from: the body, its
\* fields, the fields of its nested objects
TokenCandidates(body) ==
    LET fields == {body.f[key] : key \in DOMAIN body.f}
    IN  {body} \cup fields
        \cup UNION { {v.f[key] : key \in DOMAIN v.f} : v \in {w \in fields : IsDict(w)} }

\* C7 as stated: authenticate fails with the authentication error, carrying
\* status and body, if and only if the login status is not 2xx; for every 2xx
\* status it stores a token and returns the body without raising (read for
\* login bodies that are JSON objects).
C7_FailsIffNon2xx ==
    LoginAnswered =>
        LET resp == net.resp
            ok   == resp.status_code \in 200..299
        IN  /\ (result.outcome = "raised" /\ result.exc.cls = "APIClientError") <=> ~ok
            /\ ~ok => result.exc = AuthenticationError(resp.status_code, resp.text)
            /\ (ok /\ IsDict(resp.body)) =>
                     /\ result.outcome = "returned"
                     /\ result.value = resp.body
                     /\ token \in TokenCandidates(resp.body)

\* C7 amended: authenticate fails with the authentication error, carrying
\* status and body, if and only if the login status is other than 200; for
\* status 200 and a JSON-object body it stores a token and returns the body
\* without raising; a 200 body that is no JSON object fails with another
\* error, never the authentication error.
C7_FailsIffNot200 ==
    LoginAnswered =>
        LET resp == net.resp
            ok   == resp.status_code = 200
        IN  /\ (result.outcome = "raised" /\ result.exc.cls = "APIClientError") <=> ~ok
            /\ ~ok => result.exc = AuthenticationError(resp.status_code, resp.text)
            /\ (ok /\ IsDict(resp.body)) =>
                     /\ result.outcome = "returned"
                     /\ result.value = resp.body
                     /\ token \in TokenCandidates(resp.body)
            /\ (ok /\ ~IsDict(resp.body)) =>
                     /\ result.outcome = "raised"
                     /\ result.exc.cls \in {"JSONDecodeError", "AttributeError"}

C7_Witness ==
    /\ LoginAnswered
    /\ net.resp.status_code = 201
    /\ result.outcome = "raised"
    /\ result.exc.msg = "Authentication failed: 201 {\"reason\": \"Bad credentials\"}"

\* the first usable (truthy) value of vs, None when there is none
FirstUsable(vs) ==
    LET usable == {i \in 1..Len(vs) : Truthy(vs[i])}
    IN  IF usable = {} THEN None
        ELSE vs[CHOOSE i \in usable : \A j \in usable : i <= j]

\* C8 as stated: the strategies in order are the body's token field, its
\* access_token field, its data field (for a nested object: the nested token,
\* then the nested access_token), the whole body
C8_ClaimedToken(data) ==
    LET direct == FirstUsable(<<Get(data, "token"), Get(data, "access_token")>>)
        d      == Get(data, "data")
        nested == IF IsDict(d)
                  THEN FirstUsable(<<Get(d, "token"), Get(d, "access_token")>>)
                  ELSE d
    IN  IF Truthy(direct) THEN direct
        ELSE IF Truthy(nested) THEN nested
        ELSE data

LoginStored == result.op = "authenticate" /\ result.outcome = "returned"

\* C8 as stated: on a successful login the stored token is the first match of
\* token, access_token, data (nested token, nested access_token), whole body;
\* the header is "Bearer " followed by the stored token; the body is returned
\* unmodified.
C8_TokenByStrategy ==
    LoginStored =>
        /\ token = C8_ClaimedToken(net.resp.body)
        /\ HasAuthorization /\ headers["Authorization"] = "Bearer " \o PyStr(token)
        /\ result.value = net.resp.body

\* C8 amended: the first usable of the fields token, access_token, data is
\* selected; when the selected value is an object, whichever field it came
\* from, the first usable of its nested token and access_token replaces it;
\* when nothing usable is left the whole body is the token.
C8_AmendedToken(data) ==
    LET selected == FirstUsable(<<Get(data, "token"), Get(data, "access_token"), Get(data, "data")>>)
        unwrapped == IF IsDict(selected)
                     THEN FirstUsable(<<Get(selected, "token"), Get(selected, "access_token")>>)
                     ELSE selected
    IN  IF Truthy(unwrapped) THEN unwrapped ELSE data

\* C8 amended: the stored token is chosen as C8_AmendedToken says, the header
\* is "Bearer " followed by the stored token as text, and the body is
\* returned unmodified.
C8_TokenByUnwrapping ==
    LoginStored =>
        /\ token = C8_AmendedToken(net.resp.body)
        /\ HasAuthorization /\ headers["Authorization"] = "Bearer " \o PyStr(token)
        /\ result.value = net.resp.body

\* a login body whose token field is itself an object: the nested token is stored
C8_Witness ==
    /\ LoginStored
    /\ Get(net.resp.body, "token") = TokenObject
    /\ Get(net.resp.body, "access_token") = PyStrVal("tokB")
    /\ token = PyStrVal("tokN")
    /\ headers["Authorization"] = "Bearer tokN"

\* C9: request raises the request error exactly when the transport timed out
\* or failed; whenever the transport answered, request returns that response
\* unchanged, whatever its status.
C9_RequestErrors ==
    result.op = "request" =>
        /\ (result.outcome = "raised" /\ result.exc.cls = "APIClientError") <=> net.kind = "error"
        /\ net.kind = "error" => result.exc.msg \in {"timeout", "request failed"}
        /\ net.kind = "response" => result.outcome = "returned" /\ result.value = net.resp

\* a 401 comes back as a value, on a client that holds a token
C9_Witness ==
    /\ result.op = "request"
    /\ net.kind = "response"
    /\ net.resp.status_code = 401
    /\ result.outcome = "returned"
    /\ result.value.status_code = 401
    /\ token = PyStrVal("tokA")

\* C10: request_raise_on_unauthorized fails with the authorization error if
\* and only if the response status is 401; for every other status it returns
\* the response request would return; a timeout or failure of the transport
\* surfaces as the request error, not as the authorization error.
C10_RaiseOnUnauthorized ==
    result.op = "request_raise_on_unauthorized" =>
        /\ (result.outcome = "raised" /\ result.exc = [cls |-> "APIClientError", msg |-> "unauthorized"])
               <=> (net.kind = "response" /\ net.resp.status_code = 401)
        /\ (net.kind = "response" /\ net.resp.status_code # 401) =>
               result.outcome = "returned" /\ result.value = net.resp
        /\ net.kind = "error" =>
               /\ result.outcome = "raised"
               /\ result.exc.cls = "APIClientError"
               /\ result.exc.msg = (IF net.error \in {"ReadTimeout", "ConnectTimeout"}
                                    THEN "timeout" ELSE "request failed")
        /\ net.kind = "none" => result.outcome = "raised" /\ result.exc.cls = "TypeError"

C10_Witness ==
    /\ result.op = "request_raise_on_unauthorized"
    /\ net.kind = "response"
    /\ net.resp.status_code = 401
    /\ result.exc.msg = "unauthorized"
    /\ sent # <<>>

-----------------------------------------------------------------------------
(* Properties of the catalog and the payload builder                       *)

FiveKeys == {"file_url", "file_type", "file_id", "builder_id", "entity_id"}

\* the positions of the catalog whose entry has the given file_id
Matches(file_id) == {i \in 1..Len(catalog) : catalog[i].file_id = file_id}

\* C3: for every catalog entry e, build_query_params(e.file_id) returns a
\* mapping with exactly the five keys whose values are the fields of that
\* same entry e, as the parametrized tests take for granted.
C3_ParamsMatchEntry ==
    (test_case # None /\ built.op = "build_query_params") =>
        /\ built.outcome = "returned"
        /\ DOMAIN built.value = FiveKeys
        /\ \A key \in FiveKeys : built.value[key] = test_case[key]

\* C4: lookup by id returns the first entry, in catalog order, whose file_id
\* is the one asked for, and "not found" exactly when no entry has it;
\* duplicates are not rejected and a later entry with the same id is never
\* returned.
C4_FirstMatchWins ==
    built.op = "get_test_case" =>
        LET m == Matches(built.args.file_id)
        IN  /\ built.outcome = "returned"
            /\ (built.value = None) <=> (m = {})
            /\ m # {} => \E i \in m : /\ \A j \in m : i <= j
                                      /\ built.value = catalog[i]
                                      /\ \A j \in m \ {i} :
                                             catalog[j] # catalog[i] => built.value # catalog[j]

\* a lookup of an id that several entries share returned the first of them
C4_Witness ==
    /\ built.op = "get_test_case"
    /\ Cardinality(Matches(built.args.file_id)) > 1
    /\ built.value = catalog[1]
    /\ built.value.file_type = "community"

\* C5: build_query_params(id) fails with a ValueError, returning no mapping,
\* for every id that no catalog entry has, and never fails for an id the
\* catalog holds.
C5_ValueErrorIffAbsent ==
    built.op = "build_query_params" =>
        LET absent == Matches(built.args.file_id) = {}
        IN  /\ absent => /\ built.outcome = "raised"
                         /\ built.exc.cls = "ValueError"
                         /\ built.value = None
            /\ ~absent => built.outcome = "returned" /\ built.value # None

C5_Witness ==
    /\ built.op = "build_query_params"
    /\ built.args.file_id = "nonexistent"
    /\ built.outcome = "raised"
    /\ built.exc = [cls |-> "ValueError", msg |-> "Test case not found for file_id: nonexistent"]

\* C6: every mapping the builder returns has exactly the five keys;
\* build_query_params_custom returns its five arguments unchanged under those
\* keys and succeeds for any arguments, a file_id the catalog does not hold
\* included.
C6_FiveKeys ==
    /\ (built.op \in {"build_query_params", "build_query_params_custom"} /\ built.outcome = "returned")
           => DOMAIN built.value = FiveKeys
    /\ built.op = "build_query_params_custom" =>
           /\ built.outcome = "returned"
           /\ \A key \in FiveKeys : built.value[key] = built.args[key]

\* the negative test's payload: an id and a type the catalog does not hold
C6_Witness ==
    /\ built.op = "build_query_params_custom"
    /\ Matches(built.args.file_id) = {}
    /\ built.value.file_id = "invalid_001"
    /\ built.value.file_type = "invalid_file_type"
    /\ built.value.builder_id = "test_builder"
    /\ built.value.entity_id = "test_entity"

-----------------------------------------------------------------------------
(* the payload builder and the catalog                                     *)

\* C17: the payload builder is pure with respect to the catalog. After any
\* sequence of build_query_params / build_query_params_custom calls, and after
\* any change a caller makes to the mappings they returned, the catalog
\* entries are what they were at process start; every mapping a builder
\* returns is an object of its own, never the catalog entry; and
\* build_query_params(id) returns what it returns for the unchanged catalog.
C17_BuilderPure ==
    /\ catalog = TEST_CASES
    /\ (built.op \in BuilderOps /\ built.outcome = "returned") => held.alias = 0
    /\ built.op = "build_query_params" =>
           built = build_query_params(TEST_CASES, built.args.file_id)

\* a caller changed a mapping it was handed, then built the same id again
C17_Witness ==
    /\ mutated
    /\ built.op = "build_query_params"
    /\ built.outcome = "returned"
    /\ built.args.file_id = "abcd1234"
    /\ held = Held(0, built.value)
    /\ built.value.file_url = TEST_CASES[1].file_url

-----------------------------------------------------------------------------
(* the client: retries and the authentication state                        *)

\* the value of a header, "" when the header is not set
HeaderOf(h, name) == IF name \in DOMAIN h THEN h[name] ELSE ""

ClientCalls == {"request", "request_raise_on_unauthorized", "authenticate"}

\* C15: nothing is retried or recovered internally. Each call to request,
\* request_raise_on_unauthorized or authenticate issues exactly one transport
\* request, and a failure of that request (timeout, transport failure,
\* rejected login, 401 on the guarded call) is raised by that same call.
C15_ExactlyOneRequest ==
    result.op \in ClientCalls =>
        /\ Len(sent) = 1
        /\ net.kind = "error" => result.outcome = "raised"
        /\ (result.op = "authenticate" /\ net.kind = "response" /\ LoginRejected(net.resp))
               => result.outcome = "raised"
        /\ (result.op = "request_raise_on_unauthorized" /\ net.kind = "response"
                /\ Unauthorized(net.resp)) => result.outcome = "raised"

\* C19: failed and read-only client operations leave the authentication
\* state unchanged. A step in which authenticate raises, and every step of
\* request or request_raise_on_unauthorized whatever its outcome, leaves the
\* client's token and the session's headers exactly as they were.
C19_AuthStateKept ==
    [][ ( \/ result'.op \in {"request", "request_raise_on_unauthorized"}
          \/ (result'.op = "authenticate" /\ result'.outcome = "raised") )
        => (token' = token /\ headers' = headers) ]_vars

\* the guarded call raised on a 401 while the client held a token
C19_Witness ==
    /\ result.op = "request_raise_on_unauthorized"
    /\ result.outcome = "raised"
    /\ result.exc = [cls |-> "APIClientError", msg |-> "unauthorized"]
    /\ net.resp.status_code = 401
    /\ token = PyStrVal("tokA")
    /\ HeaderOf(headers, "Authorization") = "Bearer tokA"

-----------------------------------------------------------------------------
(* the session-scoped client and its setup                                 *)

\* /auth answered 200 with a JSON object that carries a non-empty token
AuthGranted ==
    /\ net.kind = "response"
    /\ net.resp.status_code = 200
    /\ IsDict(net.resp.body)
    /\ Truthy(Get(net.resp.body, "token"))

-----------------------------------------------------------------------------
(* the report generator                                                    *)

RECURSIVE RenderFrom(_, _, _)
\* the document the template stands for: the fields that are keyword
\* arguments replaced by their values, the blocks of the style sheet as written
RenderFrom(tokens, i, kwargs) ==
    IF i > Len(tokens) THEN ""
    ELSE (IF tokens[i].kind = "lit" THEN tokens[i].text
          ELSE IF tokens[i].name \in DOMAIN kwargs THEN kwargs[tokens[i].name]
          ELSE "{" \o tokens[i].name \o ":" \o tokens[i].spec \o "}")
         \o RenderFrom(tokens, i + 1, kwargs)

\* C11: for every sequence of test outcomes, the empty one included,
\* generate_html_report completes without error and the document it wrote
\* shows total = number of outcomes and passed / failed / skipped = number
\* of outcomes with that status.
C11_ReportCounts ==
    report.op = "generate_html_report" =>
        /\ report.outcome = "returned"
        /\ report.args.output_file \in DOMAIN files
        /\ \E now \in 0..clock :
               files[report.args.output_file]
                   = RenderFrom(Template, 1, FormatKwargs(report.args.test_results, now))

\* C12: generate_html_report(outcomes, output_file) writes the document to
\* output_file, whatever the path, after creating the parent directory of
\* output_file when it does not exist.
C12_WritesOutputFile ==
    report.op = "generate_html_report" =>
        /\ report.args.output_file \in DOMAIN files
        /\ ParentDir(report.args.output_file) \in dirs \cup {""}

-----------------------------------------------------------------------------
(* the test logger                                                         *)

\* the number of lines of a text that ends with a newline
CountNewlines(text) == Cardinality({ i \in 1..Len(text) : SubSeq(text, i, i) = "\n" })

\* the lines of the report of a logger without entries
HeaderLines == CountNewlines(ReportText(0, 0, <<>>))

IsPrefix(p, q) == Len(p) <= Len(q) /\ SubSeq(q, 1, Len(p)) = p

LogOps == {"log", "log_request", "log_response"}

\* the entries the last call appended to its logger
Appended == SubSeq(logs[logged.logger], logged.before + 1, Len(logs[logged.logger]))

\* C13: after any sequence of log, log_request and log_response calls,
\* get_report() reports a 'Total Logs' count equal to the number of entries,
\* and its text is the fixed header lines followed by exactly one line per
\* entry: the number of lines is the number of entries plus a constant,
\* whatever the messages are.
C13_ReportLineCount ==
    logged.op = "get_report" =>
        LET entries == logs[logged.logger]
        IN  /\ \E now \in 0..clock :
                   IsPrefix(ReportHeader(start_time[logged.logger], now, Len(entries)), logged.value)
            /\ CountNewlines(logged.value) = Len(entries) + HeaderLines

\* the line of the report that shows entry e
EntryLine(e) == "[" \o e.timestamp \o "] [" \o e.level \o "] " \o e.message \o "\n"

RECURSIVE LinesInOrder(_, _)
\* the lines of entries i, i+1, ... in that order
LinesInOrder(entries, i) ==
    IF i > Len(entries) THEN ""
    ELSE EntryLine(entries[i]) \o LinesInOrder(entries, i + 1)

\* C14: the entry sequence of a logger is append-only. Every step leaves the
\* entries each logger had as a prefix of the entries it has; get_report
\* leaves them unchanged, and its text lists them in insertion order after
\* the header.
C14_AppendOnly ==
    /\ [](logged.op = "get_report" =>
            \E now \in 0..clock :
                logged.value = ReportHeader(start_time[logged.logger], now, Len(logs[logged.logger]))
                               \o LinesInOrder(logs[logged.logger], 1))
    /\ [][ /\ \A l \in DOMAIN logs : l \in DOMAIN logs' /\ IsPrefix(logs[l], logs'[l])
           /\ logged'.op = "get_report" => logs' = logs ]_vars

\* the report of a logger that holds three entries
C14_Witness ==
    /\ logged.op = "get_report"
    /\ Len(logs[logged.logger]) = 3
    /\ logs[logged.logger][1].message # logs[logged.logger][3].message

\* a value given for an optional argument: anything but the default None
Supplied(v) == v # None

\* C16: log_request appends one entry for 'REQUEST: method url', then one
\* for the query parameters whenever params are supplied, then one for the
\* body whenever a JSON body is supplied; log_response appends one entry for
\* the status, then one for the elapsed time whenever it is supplied (0
\* included), then one for the body whenever it is supplied (an empty object
\* included); all these entries have level INFO.
C16_HelperEntries ==
    /\ logged.op = "log_request" =>
           /\ Len(Appended) = 1 + (IF Supplied(logged.args.params) THEN 1 ELSE 0)
                                + (IF Supplied(logged.args.json_body) THEN 1 ELSE 0)
           /\ Appended[1].message = "REQUEST: " \o logged.args.method \o " " \o logged.args.url
           /\ \A i \in 1..Len(Appended) : Appended[i].level = "INFO"
    /\ logged.op = "log_response" =>
           /\ Len(Appended) = 1 + (IF Supplied(logged.args.response_time_ms) THEN 1 ELSE 0)
                                + (IF Supplied(logged.args.data) THEN 1 ELSE 0)
           /\ Appended[1].message = "RESPONSE: Status " \o ToString(logged.args.status)
           /\ \A i \in 1..Len(Appended) : Appended[i].level = "INFO"

\* C20: logger instances are isolated per test case. The logger the fixture
\* hands out starts without entries and leaves the other loggers as they
\* are; a log, log_request or log_response call on one logger leaves the
\* entries of every other logger unchanged; and the text get_report returns
\* is made of the entries of its own logger only.
C20_LoggersIsolated ==
    /\ [](logged.op = "get_report" =>
            \E now \in 0..clock :
                logged.value = ReportText(start_time[logged.logger], now, logs[logged.logger]))
    /\ [][ /\ logged'.op = "test_logger" /\ logged' # logged =>
                 /\ logs'[logged'.logger] = <<>>
                 /\ \A k \in DOMAIN logs : logs'[k] = logs[k]
           /\ logged'.op \in LogOps =>
                 \A k \in DOMAIN logs \ {logged'.logger} : logs'[k] = logs[k] ]_vars

\* two loggers, each with entries of its own
C20_Witness ==
    /\ Len(logs) = 2
    /\ logged.op \in LogOps
    /\ logged.logger = 2
    /\ logs[1] # <<>>
    /\ logs[2] # <<>>
    /\ \A i \in 1..Len(logs[1]), j \in 1..Len(logs[2]) : logs[1][i].message # logs[2][j].message

=============================================================================
